---------------------------- MODULE Spec2Model ----------------------------
(***************************************************************************)
(* A model of research/modelling/tweet_torch.py: the label binning, the    *)
(* two-stage stratified split, TweetDataset and its sample weights, the    *)
(* ViralityClassifier head (layer widths and loss selection) and the       *)
(* CustomTrainer run (weighted sampler, per-epoch evaluation, early        *)
(* stopping, checkpoint rotation, best-model artifact).                    *)
(*                                                                         *)
(* Conventions.  Python indices are kept 0-based (a TLA+ sequence s is     *)
(* read at s[i + 1]).  Floats that are ratios of small integers (sample    *)
(* weights 1./count, accuracy = mean of a boolean vector) are exact        *)
(* rationals [num, den]; comparisons cross-multiply.  A raised exception   *)
(* ends the script: pc = "error" and error names the exception.            *)
(***************************************************************************)
EXTENDS Integers, Sequences, FiniteSets, TLC

VARIABLES
    pc,                 \* position in the script
    error,              \* the exception that ended the script, "" if none
    retweets_count,     \* df["retweets_count"], one entry per row
    label,              \* df["label"], <<>> before line 72
    test_val,           \* the 30% remainder of the first split (rows)
    splits,             \* splits["train" | "val" | "test"] (sets of rows)
    datasets,           \* datasets["train" | "val" | "test"]
    labels,             \* the labels handed to a TweetDataset
    sample_weights,     \* TweetDataset.sample_weights
    model_args,         \* arguments of ViralityClassifier(...)
    model,              \* the constructed ViralityClassifier
    batch,              \* one batch handed to forward
    output,             \* what forward returned
    train_dataset,      \* trainer.train_dataset
    eval_dataset,       \* trainer.eval_dataset
    state,              \* trainer.state (TrainerState)
    early_stopping_patience_counter,
    should_training_stop,   \* trainer.control.should_training_stop
    output_dir,         \* checkpoint folders under ./results/<run name>
    drawn,              \* indices the sampler yielded this epoch
    eval_rows,          \* rows the last evaluation read
    eval_calls,         \* evaluation rounds run so far
    loaded_checkpoint,  \* checkpoint reloaded by load_best_model_at_end
    best_ckpt,          \* line 268
    run_max,            \* history: greatest accuracy of the training rounds
    non_improving       \* history: trailing rounds that did not beat run_max

dfVars == <<retweets_count, label, test_val, splits, datasets>>
weightVars == <<labels, sample_weights>>
modelVars == <<model_args, model, batch, output>>
trainerVars == <<train_dataset, eval_dataset, state,
                 early_stopping_patience_counter, should_training_stop,
                 output_dir, drawn, eval_rows, eval_calls, loaded_checkpoint,
                 best_ckpt, run_max, non_improving>>
vars == <<pc, error, dfVars, weightVars, modelVars, trainerVars>>

-----------------------------------------------------------------------------
(* Bounds of the model *)

\* retweet counts handed to the binning range over 0..MaxCount
MaxCount == 101
\* label lists handed to a TweetDataset have 1..MaxLabels entries
MaxLabels == 5
\* corpora of the pipeline have 1..MaxCorpus rows
MaxCorpus == 5
\* auxiliary feature counts range over 0..MaxFeatures
MaxFeatures == 6
\* label cardinalities range over 1..MaxCardinality
MaxCardinality == 4
\* batches hold 1..MaxBatch examples
MaxBatch == 2
\* size of the evaluation set of a trainer built on datasets of its own
ValSize == 6

-----------------------------------------------------------------------------
(* Generic helpers *)

Range(s) == {s[i] : i \in 1..Len(s)}

Min(S) == CHOOSE x \in S : \A y \in S : x <= y

Max(S) == CHOOSE x \in S : \A y \in S : x >= y

RECURSIVE SumOver(_, _)
SumOver(f, S) ==
    IF S = {} THEN 0
    ELSE LET x == CHOOSE y \in S : TRUE IN f[x] + SumOver(f, S \ {x})

RECURSIVE SortedSeq(_)
SortedSeq(S) ==
    IF S = {} THEN <<>> ELSE <<Min(S)>> \o SortedSeq(S \ {Min(S)})

CeilDiv(a, b) == (a + b - 1) \div b

SeqsUpTo(S, n) == UNION {[1..k -> S] : k \in 1..n}

\* exact rationals
Rat(n, d) == [num |-> n, den |-> d]

RatEq(a, b) == a.num * b.den = b.num * a.den

RatGreater(a, b) == a.num * b.den > b.num * a.den

RECURSIVE GCD(_, _)
GCD(a, b) == IF b = 0 THEN a ELSE GCD(b, a % b)

\* the sum, in lowest terms
RatAdd(a, b) ==
    LET n == a.num * b.den + b.num * a.den
        d == a.den * b.den
        g == GCD(d, n)
    IN  Rat(n \div g, d \div g)

RECURSIVE RatSum(_, _)
RatSum(w, I) ==
    IF I = {} THEN Rat(0, 1)
    ELSE LET i == CHOOSE j \in I : TRUE IN RatAdd(w[i], RatSum(w, I \ {i}))

-----------------------------------------------------------------------------
(* Label binning: lines 72-73 *)

\* float("inf"), the last bin edge; never compared as a number
INF == -1

\* bins=[0,1,10,100,float("inf")]
Bins == <<0, 1, 10, 100, INF>>

\* pandas' missing value, the label of a count outside every bin
NaN == -1

\* rename_categories([0,1,2,3])
Categories == <<0, 1, 2, 3>>

EdgeLeq(edge, x) == edge # INF /\ edge <= x

EdgeLess(edge, x) == edge # INF /\ edge < x

\* bins.searchsorted(x, side="right"): the edges that are <= x
SearchSortedRight(bins, x) == Cardinality({i \in 1..Len(bins) : EdgeLeq(bins[i], x)})

\* bins.searchsorted(x, side="left"): the edges that are < x
SearchSortedLeft(bins, x) == Cardinality({i \in 1..Len(bins) : EdgeLess(bins[i], x)})

\* pd.cut(x, bins, right=True, include_lowest=True): intervals closed on the right
pdCutRightClosed(x, bins) ==
    LET ids0 == SearchSortedLeft(bins, x)
        ids == IF x = bins[1] THEN 1 ELSE ids0
    IN  IF ids = 0 \/ ids = Len(bins) THEN NaN ELSE ids - 1

\* pd.cut(x, bins, right=False, include_lowest=True): the code of x's interval
pdCut(x, bins) ==
    LET ids0 == SearchSortedRight(bins, x)
        ids == IF x = bins[1] THEN 1 ELSE ids0
    IN  IF ids = 0 \/ ids = Len(bins) THEN NaN ELSE ids - 1

\* lines 72-73 on one count: the interval code, then its new category name
LabelOf(x) ==
    LET code == pdCut(x, Bins) IN IF code = NaN THEN NaN ELSE Categories[code + 1]

\* lines 72-73: df["label"] computed from df["retweets_count"]
CutLabels ==
    /\ pc = "loaded"
    /\ label' = [i \in 1..Len(retweets_count) |-> LabelOf(retweets_count[i])]
    /\ pc' = "labelled"
    /\ UNCHANGED <<error, retweets_count, test_val, splits, datasets,
                   weightVars, modelVars, trainerVars>>

-----------------------------------------------------------------------------
(* TweetDataset: lines 82-119 *)

IndexError == "IndexError"

ValueError == "ValueError"

\* a value a call returns, or the exception it raised
Returned(v) == [raised |-> "", value |-> v]

Raised(e) == [raised |-> e, value |-> <<>>]

\* np.unique(labels): the distinct labels in ascending order
Unique(ls) == SortedSeq(Range(ls))

\* np.unique(labels, return_counts=True)[1]
ClassSampleCounts(ls) ==
    LET u == Unique(ls)
    IN  [k \in 1..Len(u) |-> Cardinality({i \in 1..Len(ls) : ls[i] = u[k]})]

\* line 117: class_weights = 1. / class_sample_counts, one entry per PRESENT class
ClassWeights(ls) ==
    LET counts == ClassSampleCounts(ls)
    IN  [k \in 1..Len(counts) |-> Rat(1, counts[k])]

\* lines 115-119: class_weights[labels] reads the table at each label's value
compute_sample_weights(ls) ==
    LET class_weights == ClassWeights(ls)
    IN  IF \E i \in 1..Len(ls) : ls[i] >= Len(class_weights)
        THEN Raised(IndexError)
        ELSE Returned([i \in 1..Len(ls) |-> class_weights[ls[i] + 1]])

\* the value None, for a dataset
NoDataset == [present |-> FALSE, rows |-> <<>>, labels |-> <<>>,
              sample_weights |-> <<>>]

\* lines 83-95: TweetDataset(texts, labels, ...); rows stand for the texts
TweetDataset(rows, ls) ==
    LET w == compute_sample_weights(ls)
    IN  IF w.raised # "" THEN Raised(w.raised)
        ELSE Returned([present |-> TRUE, rows |-> rows, labels |-> ls,
                       sample_weights |-> w.value])

\* lines 91-95 for one label list
NewTweetDataset ==
    /\ pc = "labels"
    /\ LET ds == TweetDataset([i \in 1..Len(labels) |-> i], labels)
       IN  /\ sample_weights' = IF ds.raised = "" THEN ds.value.sample_weights ELSE <<>>
           /\ error' = ds.raised
           /\ pc' = IF ds.raised = "" THEN "dataset" ELSE "error"
    /\ UNCHANGED <<labels, dfVars, modelVars, trainerVars>>

-----------------------------------------------------------------------------
(* The two-stage stratified split: lines 75-79 *)

\* test_size=0.3 (line 78) and test_size=0.5 (line 79), as exact ratios
TestSizeNum == 3

TestSizeDen == 10

ValTestSizeNum == 1

ValTestSizeDen == 2

SplitNames == {"train", "val", "test"}

\* the classes of the rows, and the rows of one class
ClassesOf(rows, lab) == {lab[r] : r \in rows}

RowsOfClass(rows, lab, c) == {r \in rows : lab[r] = c}

\* sklearn _validate_shuffle_split: n_test = ceil(test_size * n_samples), and
\* n_train is the rest
NTest(n, num, den) == CeilDiv(num * n, den)

NTrain(n, num, den) == n - NTest(n, num, den)

\* sklearn _approximate_mode(class_counts, n_draws, rng): every class gets
\* floor(count * n_draws / total); the draws left over go to the classes with
\* the largest remainders, ties broken by the generator.  The set of results.
ApproximateMode(counts, n_draws) ==
    LET cs == DOMAIN counts
        total == SumOver(counts, cs)
        floored == [c \in cs |-> (counts[c] * n_draws) \div total]
        remainder == [c \in cs |-> (counts[c] * n_draws) % total]
        need_to_add == n_draws - SumOver(floored, cs)
    IN  {[c \in cs |-> floored[c] + (IF c \in S THEN 1 ELSE 0)] :
            S \in {T \in SUBSET cs :
                     /\ Cardinality(T) = need_to_add
                     /\ \A a \in T : \A b \in cs \ T : remainder[a] >= remainder[b]}}

\* StratifiedShuffleSplit's checks before it draws
SplitRaises(rows, lab, num, den) ==
    LET n == Cardinality(rows)
        cls == ClassesOf(rows, lab)
    IN  \/ NTrain(n, num, den) = 0
        \/ \E c \in cls : Cardinality(RowsOfClass(rows, lab, c)) < 2
        \/ NTrain(n, num, den) < Cardinality(cls)
        \/ NTest(n, num, den) < Cardinality(cls)

\* the test part drawn from every row, the train rows included
TestRowsFromAll(rows, train) == rows

\* the rows the test part is drawn from: those the train part left
TestRowsFrom(rows, train) == rows \ train

\* train_test_split(rows, test_size=num/den, stratify=lab): the set of the
\* <<train, test>> pairs the shuffle can produce (row order within a part is
\* kept as the corpus order)
StratifiedSplits(rows, lab, num, den) ==
    LET n == Cardinality(rows)
        cls == ClassesOf(rows, lab)
        class_counts == [c \in cls |-> Cardinality(RowsOfClass(rows, lab, c))]
    IN  UNION {
          LET remaining == [c \in cls |-> class_counts[c] - n_i[c]] IN
          UNION {
            {<<train, test>> : test \in {T \in SUBSET TestRowsFrom(rows, train) :
                  \A c \in cls : Cardinality(RowsOfClass(T, lab, c)) = t_i[c]}} :
              train \in {T \in SUBSET rows :
                  \A c \in cls : Cardinality(RowsOfClass(T, lab, c)) = n_i[c]},
              t_i \in ApproximateMode(remaining, NTest(n, num, den))} :
          n_i \in ApproximateMode(class_counts, NTrain(n, num, den))}

NoSplits == [s \in SplitNames |-> {}]

\* line 78: splits["train"], test_val = train_test_split(df, test_size=0.3, ...)
SplitTrain ==
    /\ pc = "labelled"
    /\ LET rows == 1..Len(label) IN
       IF SplitRaises(rows, label, TestSizeNum, TestSizeDen)
       THEN /\ pc' = "error"
            /\ error' = ValueError
            /\ UNCHANGED <<splits, test_val>>
       ELSE \E sp \in StratifiedSplits(rows, label, TestSizeNum, TestSizeDen) :
            /\ splits' = [splits EXCEPT !["train"] = sp[1]]
            /\ test_val' = sp[2]
            /\ pc' = "split_train"
            /\ UNCHANGED error
    /\ UNCHANGED <<retweets_count, label, datasets, weightVars, modelVars, trainerVars>>

\* line 79: splits["val"], splits["test"] = train_test_split(test_val, test_size=0.5, ...)
SplitValTest ==
    /\ pc = "split_train"
    /\ IF SplitRaises(test_val, label, ValTestSizeNum, ValTestSizeDen)
       THEN /\ pc' = "error"
            /\ error' = ValueError
            /\ UNCHANGED splits
       ELSE \E sp \in StratifiedSplits(test_val, label, ValTestSizeNum, ValTestSizeDen) :
            /\ splits' = [splits EXCEPT !["val"] = sp[1], !["test"] = sp[2]]
            /\ pc' = "split"
            /\ UNCHANGED error
    /\ UNCHANGED <<retweets_count, label, test_val, datasets, weightVars, modelVars,
                   trainerVars>>

NoDatasets == [s \in SplitNames |-> NoDataset]

\* splits[split_name].label.to_list(), in row order
SplitLabels(rows, lab) == LET rs == SortedSeq(rows) IN [i \in 1..Len(rs) |-> lab[rs[i]]]

\* lines 121-128: one TweetDataset per split; the first exception ends the script
BuildDatasets ==
    /\ pc = "split"
    /\ LET built == [s \in SplitNames |->
                        TweetDataset(SortedSeq(splits[s]), SplitLabels(splits[s], label))]
       IN  IF \E s \in SplitNames : built[s].raised # ""
           THEN /\ pc' = "error"
                /\ error' = (CHOOSE e \in {built[s].raised : s \in SplitNames} : e # "")
                /\ UNCHANGED datasets
           ELSE /\ datasets' = [s \in SplitNames |-> built[s].value]
                /\ pc' = "datasets"
                /\ UNCHANGED error
    /\ UNCHANGED <<retweets_count, label, test_val, splits, weightVars, modelVars,
                   trainerVars>>

-----------------------------------------------------------------------------
(* ViralityClassifier: lines 130-206.  Tensors are modelled by their shapes. *)

\* the labels a batch can carry: the renamed categories
Classes == Range(Categories)

\* hidden sizes of the encoder: google/bert_uncased_L-2_H-128_A-2 has 128
HiddenSizes == {128, 768}

Linear(in, out) == [kind |-> "Linear", in |-> in, out |-> out]

Dropout == [kind |-> "Dropout", in |-> 0, out |-> 0]

ReLU == [kind |-> "ReLU", in |-> 0, out |-> 0]

\* a layer applied to a (batch, width) tensor: the width that comes out, or
\* the shape error torch raises
ApplyLayer(layer, width) ==
    IF width.raised # "" THEN width
    ELSE IF layer.kind # "Linear" THEN width
    ELSE IF layer.in = width.value THEN Returned(layer.out)
    ELSE Raised("RuntimeError")

RECURSIVE Sequential(_, _)
Sequential(layers, width) ==
    IF layers = <<>> THEN width
    ELSE Sequential(Tail(layers), ApplyLayer(Head(layers), width))

\* a fusion classifier whose first layer takes n_features + n_labels inputs
FusionClassifierLabelsWide(n_features, n_labels) ==
    <<Linear(n_features + n_labels, n_features), ReLU, Linear(n_features, n_labels)>>

\* lines 152-156
FusionClassifier(n_features, n_labels) ==
    <<Linear(n_features * 2, n_features), ReLU, Linear(n_features, n_labels)>>

\* lines 161-168
BertProcessor(bert_hdim, out) ==
    <<Dropout, Linear(bert_hdim, bert_hdim \div 3), ReLU, Linear(bert_hdim \div 3, out)>>

\* lines 136-168: ViralityClassifier(checkpoint, n_features, n_labels, freeze_bert)
ViralityClassifier(args) ==
    [n_labels |-> args.n_labels,
     bert_hdim |-> args.bert_hdim,
     bert_requires_grad |-> ~args.freeze_bert,
     classifier |-> IF args.n_features = 0 THEN <<>>
                    ELSE FusionClassifier(args.n_features, args.n_labels),
     bert_processor |-> BertProcessor(args.bert_hdim,
                            IF args.n_features = 0 THEN args.n_labels
                            ELSE args.n_features)]

\* the loss picked by how many distinct labels the batch holds
LossBranchByData(n, ls) ==
    IF Cardinality(Range(ls)) = 1 THEN "mse_loss"
    ELSE IF Cardinality(Range(ls)) = 2 THEN "binary_cross_entropy_with_logits"
    ELSE "cross_entropy"

\* lines 195-201: the branch compute_loss takes
LossBranch(n, ls) ==
    IF n = 1 THEN "mse_loss"
    ELSE IF n = 2 THEN "binary_cross_entropy_with_logits"
    ELSE "cross_entropy"

\* lines 192-202: the loss function called on logits of shape (size, width) and
\* the batch labels, and the exception that call raises, if any
compute_loss(m, size, width, ls) ==
    LET fn == LossBranch(m.n_labels, ls)
        rows == (size * width) \div m.n_labels
    IN  IF (size * width) % m.n_labels # 0
        THEN [fn |-> "", raised |-> "RuntimeError"]          \* logits.view(-1, n_labels)
        ELSE IF fn = "binary_cross_entropy_with_logits"
        THEN [fn |-> fn, raised |-> ValueError]              \* target (B) against input (B, 2)
        ELSE IF rows # Len(ls)
        THEN [fn |-> fn, raised |-> ValueError]
        ELSE IF fn = "cross_entropy" /\ \E i \in 1..Len(ls) : ls[i] >= m.n_labels
        THEN [fn |-> fn, raised |-> IndexError]              \* target out of bounds
        ELSE [fn |-> fn, raised |-> ""]

NoOutput == [raised |-> "", returned |-> FALSE, processor_width |-> 0, cat_width |-> 0,
             logits_width |-> 0, loss_fn |-> ""]

\* lines 170-190
forward(m, b) ==
    LET processed == Sequential(m.bert_processor, Returned(m.bert_hdim))
        fused == m.classifier # <<>>
        cat_width == IF fused /\ processed.raised = ""
                     THEN processed.value + b.features_width ELSE 0
        logits == IF fused THEN Sequential(m.classifier,
                                    IF processed.raised = "" THEN Returned(cat_width)
                                    ELSE processed)
                  ELSE processed
    IN  IF logits.raised # ""
        THEN [NoOutput EXCEPT !.raised = logits.raised,
                              !.processor_width =
                                  IF processed.raised = "" THEN processed.value ELSE 0,
                              !.cat_width = cat_width]
        ELSE LET loss == compute_loss(m, b.size, logits.value, b.labels)
             IN  [raised |-> loss.raised,
                  returned |-> loss.raised = "",
                  processor_width |-> processed.value,
                  cat_width |-> cat_width,
                  logits_width |-> logits.value,
                  loss_fn |-> loss.fn]

NoModel == [n_labels |-> 0, bert_hdim |-> 0, bert_requires_grad |-> FALSE,
            classifier |-> <<>>, bert_processor |-> <<>>]

NoBatch == [size |-> 0, labels |-> <<>>, features_width |-> 0]

NoArgs == [n_features |-> 0, n_labels |-> 0, bert_hdim |-> 0, freeze_bert |-> FALSE]

\* lines 215-221
NewViralityClassifier ==
    /\ pc = "model_args"
    /\ model' = ViralityClassifier(model_args)
    /\ pc' = "model"
    /\ UNCHANGED <<error, model_args, batch, output, dfVars, weightVars, trainerVars>>

\* the labels a batch of a dataset with n_labels classes can carry: class
\* indices below n_labels, or any target value when n_labels = 1 (regression)
BatchLabels(n_labels) == IF n_labels = 1 THEN Classes ELSE 0..(n_labels - 1)

\* one call of forward, on a batch of the dataset (its feature vectors have
\* len(features) entries: lines 127 and 217 read the same list)
Forward ==
    /\ pc = "model"
    /\ \E size \in 1..MaxBatch : \E ls \in [1..size -> BatchLabels(model.n_labels)] :
         /\ batch' = [size |-> size, labels |-> ls,
                      features_width |-> model_args.n_features]
         /\ output' = forward(model, batch')
         /\ error' = output'.raised
         /\ pc' = IF output'.raised = "" THEN "forwarded" ELSE "error"
    /\ UNCHANGED <<model_args, model, dfVars, weightVars, trainerVars>>

-----------------------------------------------------------------------------
(* CustomTrainer and the training run: lines 45-64, 209-212, 224-270.      *)
(* transformers.Trainer is configured by training_args; its per-epoch     *)
(* loop is: train on the sampler's batches, evaluate, let the callbacks   *)
(* see the metrics, save a checkpoint, rotate the checkpoint folders.     *)

\* training_args and wandb.config
num_train_epochs == 20

per_device_train_batch_size == 128

save_total_limit == 1

early_stopping_patience == 3

early_stopping_threshold == 0

\* best_metric = None
NoMetric == Rat(0, 0)

IsNone(metric) == metric.den = 0

\* a fresh TrainerState; best_model_checkpoint 0 stands for None
NewTrainerState ==
    [epoch |-> 0, global_step |-> 0, best_metric |-> NoMetric,
     best_model_checkpoint |-> 0]

\* line 212: the mean of (label_ids == predictions.argmax(-1)), a boolean vector
compute_metric(matches) ==
    Rat(Cardinality({i \in DOMAIN matches : matches[i]}), Len(matches))

\* the boolean vectors an evaluation of the dataset can produce, one for each
\* number of right predictions (the mean reads only how many entries are true)
EvalOutcomes(ds) ==
    {[i \in 1..Len(ds.rows) |-> i <= k] : k \in 0..Len(ds.rows)}

\* np.greater(metric_value, best_metric) and abs(difference) > threshold
Improves(metric_value, best_metric) ==
    /\ RatGreater(metric_value, best_metric)
    /\ LET d == metric_value.num * best_metric.den - best_metric.num * metric_value.den
           a == IF d < 0 THEN 0 - d ELSE d
       IN  a > early_stopping_threshold * metric_value.den * best_metric.den

\* a callback that also resets its counter when the metric equals the best
CheckMetricValueTiesReset(metric_value, best_metric, counter) ==
    IF IsNone(best_metric) \/ ~RatGreater(best_metric, metric_value)
    THEN 0 ELSE counter + 1

\* EarlyStoppingCallback.check_metric_value (line 224): the new counter
CheckMetricValue(metric_value, best_metric, counter) ==
    IF IsNone(best_metric) \/ Improves(metric_value, best_metric)
    THEN 0 ELSE counter + 1

\* line 253: eval_dataset=datasets["val"]
EvalSplit == "val"

\* lines 249-257
NewCustomTrainer ==
    /\ pc = "datasets"
    /\ train_dataset' = datasets["train"]
    /\ eval_dataset' = datasets[EvalSplit]
    /\ state' = NewTrainerState
    /\ early_stopping_patience_counter' = 0
    /\ should_training_stop' = FALSE
    /\ pc' = "trainer"
    /\ UNCHANGED <<error, output_dir, drawn, eval_rows, eval_calls, loaded_checkpoint,
                   best_ckpt, run_max, non_improving, dfVars, weightVars, modelVars>>

\* line 259: trainer.evaluate(), whose metrics the early-stopping callback sees
Evaluate ==
    /\ pc = "trainer"
    /\ \E matches \in EvalOutcomes(eval_dataset) :
         LET metrics == compute_metric(matches)
             counter == CheckMetricValue(metrics, state.best_metric,
                                         early_stopping_patience_counter)
         IN  /\ early_stopping_patience_counter' = counter
             /\ should_training_stop' =
                    (should_training_stop \/ counter >= early_stopping_patience)
    /\ eval_rows' = Range(eval_dataset.rows)
    /\ eval_calls' = eval_calls + 1
    /\ pc' = "evaluated"
    /\ UNCHANGED <<error, train_dataset, eval_dataset, state, output_dir, drawn,
                   loaded_checkpoint, best_ckpt, run_max, non_improving,
                   dfVars, weightVars, modelVars>>

\* a dataloader built without looking at train_dataset
TrainDatasetNeverMissing(ds) == FALSE

\* line 234: self.train_dataset is None
TrainDatasetMissing(ds) == ~ds.present

\* the indices a sampler yields when it counts from 1
SamplerOneBased(weights, num_samples) ==
    [1..num_samples -> {i \in 1..Len(weights) : weights[i].num > 0}]

\* line 238: WeightedRandomSampler(weights, num_samples), replacement=True: the
\* index sequences one epoch can yield (an index of weight 0 is never drawn)
WeightedRandomSampler(weights, num_samples) ==
    [1..num_samples -> {i - 1 : i \in {j \in 1..Len(weights) : weights[j].num > 0}}]

\* optimizer steps per epoch: len(dataloader), drop_last=False
StepsPerEpoch(ds) == CeilDiv(Len(ds.rows), per_device_train_batch_size)

\* line 261, up to the first epoch: trainer.train() asks for the dataloader
\* (lines 233-247) and starts from a fresh TrainerState
Train ==
    /\ pc = "evaluated"
    /\ IF TrainDatasetMissing(train_dataset)
       THEN /\ pc' = "error"
            /\ error' = ValueError
            /\ UNCHANGED <<state, should_training_stop>>
       ELSE /\ pc' = "training"
            /\ state' = NewTrainerState
            /\ should_training_stop' = FALSE
            /\ UNCHANGED error
    /\ UNCHANGED <<train_dataset, eval_dataset, early_stopping_patience_counter,
                   output_dir, drawn, eval_rows, eval_calls, loaded_checkpoint,
                   best_ckpt, run_max, non_improving, dfVars, weightVars, modelVars>>

\* Trainer._sorted_checkpoints: the place (1 = first) of folder s in the list
\* of the folders by age, the best one moved to the place before the newest so
\* that rotation spares it
CheckpointPosition(steps, best, s) ==
    LET n == Cardinality(steps)
        age == Cardinality({t \in steps : t <= s})
        best_age == Cardinality({t \in steps : t <= best})
    IN  IF best \in steps /\ best_age < n - 1
        THEN IF s = best THEN n - 1
             ELSE IF best_age < age /\ age < n THEN age - 1
             ELSE age
        ELSE age

\* Trainer._rotate_checkpoints: the first len - limit folders of the list are
\* deleted; with save_total_limit=1 and load_best_model_at_end the limit is 2
\* while the newest folder is not the best one
RotateCheckpoints(dir, best) ==
    LET steps == {c.step : c \in dir}
        n == Cardinality(steps)
        limit == IF best # 0 /\ save_total_limit = 1
                    /\ \E t \in steps : t # best /\ CheckpointPosition(steps, best, t) = n
                 THEN 2 ELSE save_total_limit
    IN  IF n <= save_total_limit THEN dir
        ELSE {c \in dir : CheckpointPosition(steps, best, c.step) > n - limit}

\* one epoch of trainer.train(), its training pass: the dataloader feeds the
\* examples at the indices the sampler yields, in batches, and every batch is
\* one optimizer step
TrainEpoch ==
    /\ pc = "training"
    /\ \E indices \in WeightedRandomSampler(train_dataset.sample_weights,
                                            Len(train_dataset.sample_weights)) :
         drawn' = indices
    /\ state' = [state EXCEPT !.epoch = state.epoch + 1,
                              !.global_step = state.global_step
                                                + StepsPerEpoch(train_dataset)]
    /\ pc' = "epoch_end"
    /\ UNCHANGED <<error, train_dataset, eval_dataset, early_stopping_patience_counter,
                   should_training_stop, output_dir, eval_rows, eval_calls,
                   loaded_checkpoint, best_ckpt, run_max, non_improving,
                   dfVars, weightVars, modelVars>>

\* the end of the epoch (Trainer._maybe_log_save_evaluate): the evaluation
\* (evaluation_strategy="epoch"), the early-stopping callback on its metrics,
\* the checkpoint (save_strategy="epoch") with the best-metric update and the
\* rotation; then the loop goes on, or ends.  The epoch's iterator is used up.
MaybeLogSaveEvaluate ==
    /\ pc = "epoch_end"
    /\ \E matches \in EvalOutcomes(eval_dataset) :
         LET metrics == compute_metric(matches)
             counter == CheckMetricValue(metrics, state.best_metric,
                                         early_stopping_patience_counter)
             stop == should_training_stop \/ counter >= early_stopping_patience
             better == IsNone(state.best_metric)
                          \/ RatGreater(metrics, state.best_metric)
             best == IF better THEN state.global_step ELSE state.best_model_checkpoint
             beats == IsNone(run_max) \/ RatGreater(metrics, run_max)
         IN  /\ early_stopping_patience_counter' = counter
             /\ should_training_stop' = stop
             /\ state' = [state EXCEPT
                            !.best_metric = IF better THEN metrics ELSE @,
                            !.best_model_checkpoint = best]
             /\ output_dir' = RotateCheckpoints(
                    output_dir \cup {[step |-> state.global_step, accuracy |-> metrics]},
                    best)
             /\ run_max' = IF beats THEN metrics ELSE run_max
             /\ non_improving' = IF beats THEN 0 ELSE non_improving + 1
             /\ pc' = IF stop \/ state.epoch >= num_train_epochs
                      THEN "trained" ELSE "training"
    /\ drawn' = <<>>
    /\ eval_rows' = Range(eval_dataset.rows)
    /\ eval_calls' = eval_calls + 1
    /\ UNCHANGED <<error, train_dataset, eval_dataset, loaded_checkpoint, best_ckpt,
                   dfVars, weightVars, modelVars>>

\* the end of trainer.train(): load_best_model_at_end=True
LoadBestModel ==
    /\ pc = "trained"
    /\ loaded_checkpoint' = state.best_model_checkpoint
    /\ pc' = "finished"
    /\ UNCHANGED <<error, train_dataset, eval_dataset, state,
                   early_stopping_patience_counter, should_training_stop, output_dir,
                   drawn, eval_rows, eval_calls, best_ckpt, run_max, non_improving,
                   dfVars, weightVars, modelVars>>

\* the folder with the greatest step number
NewestCheckpoint(dir) == Max({c.step : c \in dir})

\* line 268: np.min of the step numbers of the folders in the output directory
BestCkpt(dir) == Min({c.step : c \in dir})

\* lines 263-270: the folder checkpoint-<best_ckpt> is logged as the artifact
LogBestModel ==
    /\ pc = "finished"
    /\ best_ckpt' = BestCkpt(output_dir)
    /\ pc' = "done"
    /\ UNCHANGED <<error, train_dataset, eval_dataset, state,
                   early_stopping_patience_counter, should_training_stop, output_dir,
                   drawn, eval_rows, eval_calls, loaded_checkpoint, run_max,
                   non_improving, dfVars, weightVars, modelVars>>

-----------------------------------------------------------------------------
(* Specifications *)

IdleDf ==
    /\ retweets_count = <<>>
    /\ label = <<>>
    /\ test_val = {}
    /\ splits = NoSplits
    /\ datasets = NoDatasets

IdleWeights ==
    /\ labels = <<>>
    /\ sample_weights = <<>>

IdleModel ==
    /\ model_args = NoArgs
    /\ model = NoModel
    /\ batch = NoBatch
    /\ output = NoOutput

IdleTrainer ==
    /\ train_dataset = NoDataset
    /\ eval_dataset = NoDataset
    /\ state = NewTrainerState
    /\ early_stopping_patience_counter = 0
    /\ should_training_stop = FALSE
    /\ output_dir = {}
    /\ drawn = <<>>
    /\ eval_rows = {}
    /\ eval_calls = 0
    /\ loaded_checkpoint = 0
    /\ best_ckpt = 0
    /\ run_max = NoMetric
    /\ non_improving = 0

\* the binning of a two-row table of retweet counts
InitCut ==
    /\ pc = "loaded"
    /\ error = ""
    /\ retweets_count \in [1..2 -> 0..MaxCount]
    /\ label = <<>>
    /\ test_val = {}
    /\ splits = NoSplits
    /\ datasets = NoDatasets
    /\ IdleWeights /\ IdleModel /\ IdleTrainer

SpecCut == InitCut /\ [][CutLabels]_vars

\* the 8-example label list with counts {0:4, 1:2, 2:1, 3:1}
ToyLabels == <<0, 0, 0, 0, 1, 1, 2, 3>>

\* a TweetDataset built on any short label list, or on the toy list
InitWeights ==
    /\ pc = "labels"
    /\ error = ""
    /\ labels \in SeqsUpTo(Classes, MaxLabels) \cup {ToyLabels}
    /\ sample_weights = <<>>
    /\ IdleDf /\ IdleModel /\ IdleTrainer

SpecWeights == InitWeights /\ [][NewTweetDataset]_vars

\* a ViralityClassifier of any configuration, then one forward pass
InitModel ==
    /\ pc = "model_args"
    /\ error = ""
    /\ model_args \in [n_features : 0..MaxFeatures, n_labels : 1..MaxCardinality,
                       bert_hdim : HiddenSizes, freeze_bert : BOOLEAN]
    /\ model = NoModel
    /\ batch = NoBatch
    /\ output = NoOutput
    /\ IdleDf /\ IdleWeights /\ IdleTrainer

NextModel == NewViralityClassifier \/ Forward

SpecModel == InitModel /\ [][NextModel]_vars

\* retweet counts the corpora of the pipeline are made of: one per label class
CountSamples == {0, 5, 50, 500}

\* the script from line 72 on, on any small corpus
InitData ==
    /\ pc = "loaded"
    /\ error = ""
    /\ retweets_count \in SeqsUpTo(CountSamples, MaxCorpus)
    /\ label = <<>>
    /\ test_val = {}
    /\ splits = NoSplits
    /\ datasets = NoDatasets
    /\ IdleWeights /\ IdleModel /\ IdleTrainer

NextTrain == NewCustomTrainer \/ Evaluate \/ Train \/ TrainEpoch
                \/ MaybeLogSaveEvaluate \/ LoadBestModel \/ LogBestModel

NextData == CutLabels \/ SplitTrain \/ SplitValTest \/ BuildDatasets \/ NextTrain

SpecData == InitData /\ [][NextData]_vars

\* datasets a CustomTrainer can be built on: a training set that is None or
\* holds two examples, an evaluation set of ValSize examples
TrainSets ==
    {NoDataset} \cup
    {TweetDataset(<<1, 2>>, ls).value :
        ls \in {l \in [1..2 -> Classes] : TweetDataset(<<1, 2>>, l).raised = ""}}

EvalSet ==
    TweetDataset([i \in 1..ValSize |-> 2 + i], [i \in 1..ValSize |-> 0]).value

InitTrain ==
    /\ pc = "datasets"
    /\ error = ""
    /\ retweets_count = <<>>
    /\ label = <<>>
    /\ test_val = {}
    /\ splits = NoSplits
    /\ datasets \in {[s \in SplitNames |->
                        IF s = "train" THEN t ELSE EvalSet] : t \in TrainSets}
    /\ IdleWeights /\ IdleModel /\ IdleTrainer

\* the script runs its statements one after the other: a step that can be
\* taken is taken
SpecTrain == InitTrain /\ [][NextTrain]_vars /\ WF_vars(NextTrain)

-----------------------------------------------------------------------------
(* Properties *)

\* how many entries of ls equal the label c
CountOf(ls, c) == Cardinality({i \in 1..Len(ls) : ls[i] = c})

\* the total sample weight of the examples of class c
ClassMass(c) == RatSum(sample_weights, {i \in 1..Len(labels) : labels[i] = c})

\* C1: for every label list, every example gets the weight 1 / (number of
\* examples of its class), whichever classes of {0,1,2,3} the list holds.
C1_WeightIsReciprocalOfClassCount ==
    pc \in {"dataset", "error"} =>
        /\ error = ""
        /\ Len(sample_weights) = Len(labels)
        /\ \A i \in 1..Len(labels) :
              RatEq(sample_weights[i], Rat(1, CountOf(labels, labels[i])))

\* C2: for every label list the dataset is built, and the weights of the
\* examples of a class add up to the same total for every class that occurs
\* in the list.
C2_EqualClassMass ==
    pc \in {"dataset", "error"} =>
        /\ error = ""
        /\ \A c \in Range(labels) : \A d \in Range(labels) :
              RatEq(ClassMass(c), ClassMass(d))

\* what does hold: whenever a dataset came to hold its sample weights (the
\* classes of the list are 0..k-1), every class that occurs has total weight 1
EqualClassMassWhenWeighted ==
    pc = "dataset" =>
        \A c \in Range(labels) : ClassMass(c) = Rat(1, 1)

\* C3: every non-negative count gets exactly one label: 0 below 1, 1 from 1
\* to 9, 2 from 10 to 99, 3 from 100 on (the edges 1, 10, 100 fall in the
\* higher class), and a larger count never gets a smaller label.
C3_Binning ==
    pc = "labelled" =>
        /\ Len(label) = Len(retweets_count)
        /\ \A i \in 1..Len(label) :
              LET x == retweets_count[i] IN
              /\ label[i] \in {0, 1, 2, 3}
              /\ (x < 1) <=> (label[i] = 0)
              /\ (1 <= x /\ x < 10) <=> (label[i] = 1)
              /\ (10 <= x /\ x < 100) <=> (label[i] = 2)
              /\ (100 <= x) <=> (label[i] = 3)
        /\ \A i \in 1..Len(label) : \A j \in 1..Len(label) :
              retweets_count[i] <= retweets_count[j] => label[i] <= label[j]

\* two edges are binned: 10 into class 2 and 100 into class 3
C3_Witness ==
    /\ pc = "labelled"
    /\ retweets_count = <<10, 100>>
    /\ label = <<2, 3>>

\* a forward pass has run (it returned, or the loss call raised)
Forwarded == pc \in {"forwarded", "error"}

\* C4: the loss function forward calls is fixed by n_labels alone: mean squared
\* error for 1, binary cross-entropy with logits for 2, categorical
\* cross-entropy for 3 and more, whatever the batch holds.
C4_LossByCardinality ==
    Forwarded =>
        /\ model.n_labels = 1 => output.loss_fn = "mse_loss"
        /\ model.n_labels = 2 => output.loss_fn = "binary_cross_entropy_with_logits"
        /\ model.n_labels >= 3 => output.loss_fn = "cross_entropy"

\* a four-class model takes the cross-entropy on a batch of a single class
C4_Witness ==
    /\ pc = "forwarded"
    /\ model.n_labels = 4
    /\ batch.labels = <<0, 0>>
    /\ output.loss_fn = "cross_entropy"

\* C5: the logits forward computes have width n_labels.  Without features the
\* down-projection ends at n_labels and there is no fusion classifier; with
\* features it ends at n_features, the concatenation with the feature vector
\* has width 2 * n_features, the width the fusion classifier takes, and the
\* fusion classifier ends at n_labels.  No layer raises a shape error.
C5_LogitsWidth ==
    Forwarded =>
        /\ output.logits_width = model_args.n_labels
        /\ output.raised # "RuntimeError"
        /\ model_args.n_features = 0 =>
              /\ model.classifier = <<>>
              /\ output.processor_width = model_args.n_labels
        /\ model_args.n_features > 0 =>
              /\ output.processor_width = model_args.n_features
              /\ output.cat_width = 2 * model_args.n_features
              /\ model.classifier[1].in = output.cat_width
              /\ model.classifier[Len(model.classifier)].out = model_args.n_labels

\* the script's configuration (6 features, 4 labels) returns 4-wide logits
C5_Witness ==
    /\ pc = "forwarded"
    /\ model_args.n_features = 6
    /\ model_args.n_labels = 4
    /\ output.returned
    /\ output.logits_width = 4

\* C6: when the script is done, the folder logged as the best-model artifact
\* is on disk and holds the checkpoint of the greatest validation accuracy
\* of all the epochs' evaluations, the one the trainer reloaded.
C6_ArtifactIsBest ==
    pc = "done" =>
        /\ best_ckpt = loaded_checkpoint
        /\ \E c \in output_dir : c.step = best_ckpt /\ RatEq(c.accuracy, run_max)

\* a run that ends with two folders on disk, the best older than the newest
C6_Witness ==
    /\ pc = "done"
    /\ Cardinality(output_dir) = 2
    /\ best_ckpt < state.global_step
    /\ \E c \in output_dir : c.step = state.global_step /\ RatGreater(run_max, c.accuracy)

\* the training loop has ended
TrainingEnded == pc \in {"trained", "finished", "done"}

\* C7 (safety): the callback's counter is the number of trailing rounds that
\* did not improve on the best accuracy so far (an improving round resets
\* it); the loop goes on only below 3 such rounds and below 20 epochs, and it
\* ends only at 3 such rounds or at 20 epochs.
C7_StopsAtPatience ==
    /\ pc \in {"training", "epoch_end"} \/ TrainingEnded =>
          early_stopping_patience_counter = non_improving
    /\ pc \in {"training", "epoch_end"} =>
          /\ non_improving < early_stopping_patience
          /\ state.epoch <= num_train_epochs
    /\ pc = "training" => state.epoch < num_train_epochs
    /\ TrainingEnded =>
          /\ state.epoch <= num_train_epochs
          /\ \/ non_improving = early_stopping_patience
             \/ (non_improving < early_stopping_patience
                    /\ state.epoch = num_train_epochs)

\* C7: training always terminates, by early stopping exactly at 3 consecutive
\* non-improving rounds, otherwise after 20 epochs.
C7_TrainingTerminates ==
    /\ []C7_StopsAtPatience
    /\ <>(pc \in {"done", "error"})

\* training stopped early, after a round that had reset the counter
C7_Witness ==
    /\ pc = "trained"
    /\ state.epoch > 1 + early_stopping_patience
    /\ state.epoch < num_train_epochs
    /\ non_improving = early_stopping_patience
    /\ should_training_stop

\* training ran to the epoch limit without an early stop
C7_ReachesEpochLimit ==
    /\ pc = "trained"
    /\ state.epoch = num_train_epochs
    /\ ~should_training_stop

\* the trainer was built with train_dataset=None
BuiltWithoutTrainDataset == pc # "datasets" /\ ~train_dataset.present

\* C8 as stated: a trainer built with train_dataset=None has raised at once,
\* before any evaluation.
C8_RaisedAtConstruction ==
    BuiltWithoutTrainDataset => (pc = "error" /\ eval_calls = 0)

\* C8 as amended: the trainer is built and the first evaluation runs; the
\* ValueError is raised when trainer.train() asks for the dataloader, before
\* any sampler draw, optimizer step, epoch or checkpoint; nothing else raises.
C8_RaisedWhenTrainingStarts ==
    /\ BuiltWithoutTrainDataset =>
          /\ pc \in {"trainer", "evaluated", "error"}
          /\ pc = "error" =>
                /\ error = ValueError
                /\ eval_calls = 1
                /\ state.epoch = 0
                /\ state.global_step = 0
                /\ drawn = <<>>
                /\ output_dir = {}
    /\ pc = "error" => BuiltWithoutTrainDataset

C8_Witness ==
    /\ pc = "error"
    /\ error = ValueError
    /\ ~train_dataset.present
    /\ eval_calls = 1

\* how often the index i occurs in the epoch's draws
Multiplicity(i) == Cardinality({k \in 1..Len(drawn) : drawn[k] = i})

\* C9 (the draws): an epoch's pass yields exactly N indices, each in 0..N-1
\* and of positive weight.
C9_EpochDraws ==
    pc = "epoch_end" =>
        LET N == Len(train_dataset.rows) IN
        /\ Len(drawn) = N
        /\ \A k \in 1..Len(drawn) :
              /\ drawn[k] \in 0..(N - 1)
              /\ train_dataset.sample_weights[drawn[k] + 1].num > 0

\* C9 (the frame): once the trainer is built, no step changes the datasets:
\* examples, labels and sample weights stay as they were.
C9_DatasetsUntouched ==
    pc \notin {"loaded", "labelled", "split_train", "split", "datasets"} =>
        /\ train_dataset' = train_dataset
        /\ eval_dataset' = eval_dataset
        /\ datasets' = datasets

\* C9: every epoch the sampler yields exactly N valid indices of positive
\* weight, and training never modifies the examples, labels or weights.
C9_SamplerWithReplacement ==
    /\ []C9_EpochDraws
    /\ [][C9_DatasetsUntouched]_vars

\* in a later epoch one example is drawn twice and another not at all
C9_Witness ==
    /\ pc = "epoch_end"
    /\ state.epoch >= 2
    /\ \E i \in 0..(Len(train_dataset.rows) - 1) :
       \E j \in 0..(Len(train_dataset.rows) - 1) :
          Multiplicity(i) >= 2 /\ Multiplicity(j) = 0

\* the corpus rows the epoch's batches are made of
FedRows == {train_dataset.rows[drawn[k] + 1] : k \in 1..Len(drawn)}

AbsDiff(a, b) == IF a < b THEN b - a ELSE a - b

\* C10: the first split parts the corpus into train and the remainder; the
\* second parts the remainder into val and test; train, val and test are
\* pairwise disjoint, cover the corpus and hold 70%, 15% and 15% of it, each
\* less than one row off; training batches hold train rows only, evaluation
\* reads exactly the val rows, and no test row reaches the trainer.
C10_SplitPartition ==
    LET rows == 1..Len(label)
        n == Len(label)
    IN  /\ test_val # {} =>
              /\ splits["train"] \cap test_val = {}
              /\ splits["train"] \cup test_val = rows
              /\ AbsDiff(10 * Cardinality(splits["train"]), 7 * n) < 10
        /\ splits["val"] # {} =>
              /\ splits["val"] \cap splits["test"] = {}
              /\ splits["val"] \cup splits["test"] = test_val
              /\ splits["train"] \cap splits["val"] = {}
              /\ splits["train"] \cap splits["test"] = {}
              /\ splits["train"] \cup splits["val"] \cup splits["test"] = rows
              /\ AbsDiff(20 * Cardinality(splits["val"]), 3 * n) < 20
              /\ AbsDiff(20 * Cardinality(splits["test"]), 3 * n) < 20
        /\ pc \in {"trainer", "evaluated", "training", "epoch_end", "trained",
                   "finished", "done"} =>
              /\ Range(train_dataset.rows) = splits["train"]
              /\ Range(eval_dataset.rows) = splits["val"]
              /\ FedRows \subseteq splits["train"]
              /\ eval_rows \subseteq splits["val"]
              /\ (FedRows \cup eval_rows) \cap splits["test"] = {}
              /\ eval_calls > 0 => eval_rows = splits["val"]

\* a five-row corpus split 3 / 1 / 1, an epoch fed from train, val evaluated
C10_Witness ==
    /\ pc = "epoch_end"
    /\ Len(label) = 5
    /\ Cardinality(splits["train"]) = 3
    /\ Cardinality(splits["val"]) = 1
    /\ Cardinality(splits["test"]) = 1
    /\ FedRows # {}
    /\ eval_rows = splits["val"]

=============================================================================
